---------------------------- MODULE Spec2Model ----------------------------
(***************************************************************************)
(* Edge-to-edge snapping of ICF blocks (utils/BlockSnapping, found at the  *)
(* end of src/src/core/Scene3D.ts) together with the block catalog it      *)
(* reads (data/icfCatalog, found in src/unnamed/part_001), and the         *)
(* ProjectState of src/src/elements/BlockFactory.ts (block list, undo      *)
(* history, selection, rotation, mesh map) as the handlers of              *)
(* src/src/main.ts drive it.                                               *)
(*                                                                         *)
(* Lengths.  Every length of the catalog is a multiple of 1/16 inch (the   *)
(* finest one is half the brick-ledge width, 17.375 / 2 = 8.6875), so a    *)
(* length is modelled as an integer number of sixteenths of an inch.  The  *)
(* inputs are drawn from multiples of 1/16 inch of small magnitude, for    *)
(* which every sum, difference, halving and product of the code is exact   *)
(* in IEEE double arithmetic; the integer arithmetic below is therefore    *)
(* the arithmetic of the program on these inputs.  Math.sqrt is monotone   *)
(* and the squared distances compared are exact and at least 1/256 apart,  *)
(* so dist < d is modelled as a comparison of squared distances.           *)
(***************************************************************************)
EXTENDS Integers, Sequences, FiniteSets, TLC

VARIABLES
    existingBlocks,   \* ICFBlock[] handed to the call (projectState.getICFBlocks())
    rawPosition,      \* the cursor-derived THREE.Vector3
    blockType,        \* projectState.currentBlockType
    coreThickness,    \* projectState.currentCoreThickness
    rotation,         \* projectState.currentRotation
    gridSize,         \* the gridSize argument, in sixteenths of an inch
    op,               \* the function that was called last, "none" before a call
    arg,              \* index in existingBlocks of the block passed, 0 if none
    raised,           \* TRUE when the call threw a TypeError
    ret,              \* the value returned (<<>> when the call threw)
    retObject,        \* which object the position returned is, see ObjectTags
    history,          \* ProjectState.history: snapshots of the project
    historyIndex,     \* ProjectState.historyIndex, counted from 0 as in the code
    selectedElementId,\* ProjectState.selectedElementId
    meshMap,          \* the keys of ProjectState.meshMap
    notified,         \* how often the last call ran the onChange listeners
    calls,            \* how many ProjectState calls were made
    pre               \* the ProjectState and the last call as they were before the last call

vars == <<existingBlocks, rawPosition, blockType, coreThickness, rotation,
          gridSize, op, arg, raised, ret, retObject,
          history, historyIndex, selectedElementId, meshMap, notified, calls, pre>>

\* The fields of ProjectState that the snapping functions do not see.
projectVars == <<history, historyIndex, selectedElementId, meshMap, notified, calls, pre>>

inputs == <<existingBlocks, rawPosition, blockType, coreThickness, rotation, gridSize>>

---------------------------------------------------------------------------
(* Units and catalog *)

\* One inch, in model units (sixteenths of an inch).
Inch == 16

\* n / 2 for the even n the code halves.
Half(n) == n \div 2

\* type ICFBlockType: the keys of ICF_BLOCK_CATALOG.
ICFBlockType == {"standard", "corner90", "corner45", "taperTop", "brickLedge", "heightAdjuster"}

\* type ICFCoreThickness, in inches.
ICFCoreThickness == {4, 6, 8, 10, 12}

\* getStandardWidth: 5.5 + core.
getStandardWidth(core) == 88 + core * Inch

\* ICF_BLOCK_CATALOG[type].getWidth(core).
getWidth(type, core) ==
    CASE type = "taperTop"   -> getStandardWidth(core) + 4 * Inch
      [] type = "brickLedge" -> 278
      [] OTHER               -> getStandardWidth(core)

\* ICF_BLOCK_CATALOG[type].length, .longLeg and .shortLeg (0 where the entry has none).
ICF_BLOCK_CATALOG ==
    [type \in ICFBlockType |->
        CASE type = "corner90" -> [length |-> 616, longLeg |-> 616, shortLeg |-> 360]
          [] type = "corner45" -> [length |-> 32 * Inch, longLeg |-> 32 * Inch, shortLeg |-> 32 * Inch]
          [] OTHER             -> [length |-> 48 * Inch, longLeg |-> 0, shortLeg |-> 0]]

\* `a || b` of JavaScript on numbers: b when a is 0 (or undefined, modelled as 0).
OrElse(a, b) == IF a = 0 THEN b ELSE a

\* ICF_BLOCK_CATALOG[type] is undefined for a type that is no key of the
\* catalog, and `spec.getWidth(...)` then throws a TypeError.
CatalogThrows(type) == type \notin DOMAIN ICF_BLOCK_CATALOG

IsRectangular(type) == type \in {"standard", "taperTop", "brickLedge", "heightAdjuster"}

\* const SNAP_THRESHOLD = 150 (inches).
SNAP_THRESHOLD == 150 * Inch

---------------------------------------------------------------------------
(* getBlockBounds *)

Bounds(minX, maxX, minZ, maxZ, rot) ==
    [minX |-> minX, maxX |-> maxX, minZ |-> minZ, maxZ |-> maxZ, rotation |-> rot]

\* getBlockBounds with one slip of the pen, named by `slip`:
\*   "sign"      corner90 at 180: + shortLeg - halfWidth for - shortLeg + halfWidth;
\*   "no180"     rectangular: only rotation 0 is taken as X-aligned;
\*   "same270"   corner90 at 270: the rectangle of case 90;
\*   "quadrants" corner45: cases 90 and 270 exchanged.
getBlockBoundsWith(block, slip) ==
    LET spec == ICF_BLOCK_CATALOG[block.type]
        width == getWidth(block.type, block.coreThickness)
        pos == block.position
        rot == block.rotation
        halfWidth == Half(width)
    IN  IF IsRectangular(block.type) THEN
            LET halfLength == Half(spec.length) IN
            IF rot = 0 \/ (rot = 180 /\ slip # "no180")
            THEN Bounds(pos.x - halfLength, pos.x + halfLength, pos.z - halfWidth, pos.z + halfWidth, rot)
            ELSE Bounds(pos.x - halfWidth, pos.x + halfWidth, pos.z - halfLength, pos.z + halfLength, rot)
        ELSE IF block.type = "corner90" THEN
            LET longLeg == OrElse(spec.longLeg, 616)
                shortLeg == OrElse(spec.shortLeg, 360)
            IN  CASE rot = 90 \/ (rot = 270 /\ slip = "same270") ->
                                  Bounds(pos.x - Half(longLeg), pos.x + Half(longLeg),
                                         pos.z - shortLeg + halfWidth, pos.z + halfWidth, rot)
                  [] rot = 180 /\ slip = "sign" ->
                                  Bounds(pos.x + shortLeg - halfWidth, pos.x + halfWidth,
                                         pos.z - Half(longLeg), pos.z + Half(longLeg), rot)
                  [] rot = 180 /\ slip # "sign" ->
                                  Bounds(pos.x - shortLeg + halfWidth, pos.x + halfWidth,
                                         pos.z - Half(longLeg), pos.z + Half(longLeg), rot)
                  [] rot = 270 /\ slip # "same270" ->
                                  Bounds(pos.x - Half(longLeg), pos.x + Half(longLeg),
                                         pos.z - halfWidth, pos.z + shortLeg - halfWidth, rot)
                  [] OTHER     -> Bounds(pos.x - halfWidth, pos.x + shortLeg - halfWidth,
                                         pos.z - Half(longLeg), pos.z + Half(longLeg), rot)
        ELSE IF block.type = "corner45" THEN
            LET legLength == OrElse(spec.longLeg, 32 * Inch)
                turn == IF slip = "quadrants" /\ rot \in {90, 270} THEN 360 - rot ELSE rot
            IN  CASE turn = 90  -> Bounds(pos.x, pos.x + legLength, pos.z - legLength, pos.z, rot)
                  [] turn = 180 -> Bounds(pos.x - legLength, pos.x, pos.z - legLength, pos.z, rot)
                  [] turn = 270 -> Bounds(pos.x - legLength, pos.x, pos.z, pos.z + legLength, rot)
                  [] OTHER      -> Bounds(pos.x, pos.x + legLength, pos.z, pos.z + legLength, rot)
        ELSE Bounds(pos.x - 24 * Inch, pos.x + 24 * Inch, pos.z - 7 * Inch, pos.z + 7 * Inch, rot)

getBlockBoundsSign(block) == getBlockBoundsWith(block, "sign")

getBlockBoundsNo180(block) == getBlockBoundsWith(block, "no180")

getBlockBoundsSame270(block) == getBlockBoundsWith(block, "same270")

getBlockBoundsQuadrants(block) == getBlockBoundsWith(block, "quadrants")

getBlockBounds(block) ==
    LET spec == ICF_BLOCK_CATALOG[block.type]
        width == getWidth(block.type, block.coreThickness)
        pos == block.position
        rot == block.rotation
        halfWidth == Half(width)
    IN  IF IsRectangular(block.type) THEN
            LET halfLength == Half(spec.length) IN
            IF rot = 0 \/ rot = 180
            THEN Bounds(pos.x - halfLength, pos.x + halfLength, pos.z - halfWidth, pos.z + halfWidth, rot)
            ELSE Bounds(pos.x - halfWidth, pos.x + halfWidth, pos.z - halfLength, pos.z + halfLength, rot)
        ELSE IF block.type = "corner90" THEN
            LET longLeg == OrElse(spec.longLeg, 616)
                shortLeg == OrElse(spec.shortLeg, 360)
            IN  CASE rot = 90  -> Bounds(pos.x - Half(longLeg), pos.x + Half(longLeg),
                                         pos.z - shortLeg + halfWidth, pos.z + halfWidth, rot)
                  [] rot = 180 -> Bounds(pos.x - shortLeg + halfWidth, pos.x + halfWidth,
                                         pos.z - Half(longLeg), pos.z + Half(longLeg), rot)
                  [] rot = 270 -> Bounds(pos.x - Half(longLeg), pos.x + Half(longLeg),
                                         pos.z - halfWidth, pos.z + shortLeg - halfWidth, rot)
                  [] OTHER     -> Bounds(pos.x - halfWidth, pos.x + shortLeg - halfWidth,
                                         pos.z - Half(longLeg), pos.z + Half(longLeg), rot)
        ELSE IF block.type = "corner45" THEN
            LET legLength == OrElse(spec.longLeg, 32 * Inch)
            IN  CASE rot = 90  -> Bounds(pos.x, pos.x + legLength, pos.z - legLength, pos.z, rot)
                  [] rot = 180 -> Bounds(pos.x - legLength, pos.x, pos.z - legLength, pos.z, rot)
                  [] rot = 270 -> Bounds(pos.x - legLength, pos.x, pos.z, pos.z + legLength, rot)
                  [] OTHER     -> Bounds(pos.x, pos.x + legLength, pos.z, pos.z + legLength, rot)
        ELSE Bounds(pos.x - 24 * Inch, pos.x + 24 * Inch, pos.z - 7 * Inch, pos.z + 7 * Inch, rot)

---------------------------------------------------------------------------
(* getBlockFaces and getBlockFaceOffsets *)

\* interface BlockFace.
Face(centerX, centerZ, plane, orientation) ==
    [centerX |-> centerX, centerZ |-> centerZ, plane |-> plane, orientation |-> orientation]

\* interface FaceOffset.
Offset(offsetX, offsetZ, planeOffset, orientation) ==
    [offsetX |-> offsetX, offsetZ |-> offsetZ, planeOffset |-> planeOffset, orientation |-> orientation]

getBlockFaces(block) ==
    LET spec == ICF_BLOCK_CATALOG[block.type]
        width == getWidth(block.type, block.coreThickness)
        halfWidth == Half(width)
        pos == block.position
    IN  IF IsRectangular(block.type) THEN
            LET halfLength == Half(spec.length) IN
            IF block.rotation = 0 \/ block.rotation = 180
            THEN << Face(pos.x - halfLength, pos.z, pos.x - halfLength, "minX"),
                    Face(pos.x + halfLength, pos.z, pos.x + halfLength, "maxX"),
                    Face(pos.x, pos.z - halfWidth, pos.z - halfWidth, "minZ"),
                    Face(pos.x, pos.z + halfWidth, pos.z + halfWidth, "maxZ") >>
            ELSE << Face(pos.x - halfWidth, pos.z, pos.x - halfWidth, "minX"),
                    Face(pos.x + halfWidth, pos.z, pos.x + halfWidth, "maxX"),
                    Face(pos.x, pos.z - halfLength, pos.z - halfLength, "minZ"),
                    Face(pos.x, pos.z + halfLength, pos.z + halfLength, "maxZ") >>
        ELSE IF block.type = "corner90" THEN
            LET longLeg == OrElse(spec.longLeg, 616)
                shortLeg == OrElse(spec.shortLeg, 360)
                halfLongLeg == Half(longLeg)
            IN  CASE block.rotation = 0 ->
                    << Face(pos.x - halfWidth, pos.z, pos.x - halfWidth, "minX"),
                       Face(pos.x + shortLeg - halfWidth, pos.z - halfLongLeg + halfWidth,
                            pos.x + shortLeg - halfWidth, "maxX"),
                       Face(pos.x - halfWidth + Half(shortLeg), pos.z - halfLongLeg,
                            pos.z - halfLongLeg, "minZ"),
                       Face(pos.x, pos.z + halfLongLeg, pos.z + halfLongLeg, "maxZ") >>
                  [] block.rotation = 90 ->
                    << Face(pos.x - halfLongLeg, pos.z + halfWidth - Half(shortLeg),
                            pos.x - halfLongLeg, "minX"),
                       Face(pos.x + halfLongLeg, pos.z, pos.x + halfLongLeg, "maxX"),
                       Face(pos.x - halfLongLeg + halfWidth, pos.z - shortLeg + halfWidth,
                            pos.z - shortLeg + halfWidth, "minZ"),
                       Face(pos.x, pos.z + halfWidth, pos.z + halfWidth, "maxZ") >>
                  [] block.rotation = 180 ->
                    << Face(pos.x - shortLeg + halfWidth, pos.z + halfLongLeg - halfWidth,
                            pos.x - shortLeg + halfWidth, "minX"),
                       Face(pos.x + halfWidth, pos.z, pos.x + halfWidth, "maxX"),
                       Face(pos.x, pos.z - halfLongLeg, pos.z - halfLongLeg, "minZ"),
                       Face(pos.x + halfWidth - Half(shortLeg), pos.z + halfLongLeg,
                            pos.z + halfLongLeg, "maxZ") >>
                  [] block.rotation = 270 ->
                    << Face(pos.x - halfLongLeg, pos.z, pos.x - halfLongLeg, "minX"),
                       Face(pos.x + halfLongLeg, pos.z - halfWidth + Half(shortLeg),
                            pos.x + halfLongLeg, "maxX"),
                       Face(pos.x, pos.z - halfWidth, pos.z - halfWidth, "minZ"),
                       Face(pos.x + halfLongLeg - halfWidth, pos.z + shortLeg - halfWidth,
                            pos.z + shortLeg - halfWidth, "maxZ") >>
                  [] OTHER -> << >>   \* the switch has no default: faces stays empty
        ELSE
            LET bounds == getBlockBounds(block) IN
            << Face(bounds.minX, Half(bounds.minZ + bounds.maxZ), bounds.minX, "minX"),
               Face(bounds.maxX, Half(bounds.minZ + bounds.maxZ), bounds.maxX, "maxX"),
               Face(Half(bounds.minX + bounds.maxX), bounds.minZ, bounds.minZ, "minZ"),
               Face(Half(bounds.minX + bounds.maxX), bounds.maxZ, bounds.maxZ, "maxZ") >>

\* getBlockFaceOffsets with one slip of the pen, named by `slip`:
\*   "no270"    the corner90 switch has no case 270;
\*   "midpoint" corner90 at 90, -X face: - halfWidth + shortLeg / 2 for
\*              halfWidth - shortLeg / 2.
getBlockFaceOffsetsWith(type, core, rot, slip) ==
    LET spec == ICF_BLOCK_CATALOG[type]
        width == getWidth(type, core)
        halfWidth == Half(width)
    IN  IF IsRectangular(type) THEN
            LET halfLength == Half(spec.length) IN
            IF rot = 0 \/ rot = 180
            THEN << Offset(-halfLength, 0, -halfLength, "minX"),
                    Offset(halfLength, 0, halfLength, "maxX"),
                    Offset(0, -halfWidth, -halfWidth, "minZ"),
                    Offset(0, halfWidth, halfWidth, "maxZ") >>
            ELSE << Offset(-halfWidth, 0, -halfWidth, "minX"),
                    Offset(halfWidth, 0, halfWidth, "maxX"),
                    Offset(0, -halfLength, -halfLength, "minZ"),
                    Offset(0, halfLength, halfLength, "maxZ") >>
        ELSE IF type = "corner90" THEN
            LET longLeg == OrElse(spec.longLeg, 616)
                shortLeg == OrElse(spec.shortLeg, 360)
                halfLongLeg == Half(longLeg)
            IN  CASE rot = 0 ->
                    << Offset(-halfWidth, 0, -halfWidth, "minX"),
                       Offset(shortLeg - halfWidth, -halfLongLeg + halfWidth, shortLeg - halfWidth, "maxX"),
                       Offset(-halfWidth + Half(shortLeg), -halfLongLeg, -halfLongLeg, "minZ"),
                       Offset(0, halfLongLeg, halfLongLeg, "maxZ") >>
                  [] rot = 90 ->
                    << Offset(-halfLongLeg,
                              IF slip = "midpoint" THEN -halfWidth + Half(shortLeg)
                                                   ELSE halfWidth - Half(shortLeg),
                              -halfLongLeg, "minX"),
                       Offset(halfLongLeg, 0, halfLongLeg, "maxX"),
                       Offset(-halfLongLeg + halfWidth, -shortLeg + halfWidth, -shortLeg + halfWidth, "minZ"),
                       Offset(0, halfWidth, halfWidth, "maxZ") >>
                  [] rot = 180 ->
                    << Offset(-shortLeg + halfWidth, halfLongLeg - halfWidth, -shortLeg + halfWidth, "minX"),
                       Offset(halfWidth, 0, halfWidth, "maxX"),
                       Offset(0, -halfLongLeg, -halfLongLeg, "minZ"),
                       Offset(halfWidth - Half(shortLeg), halfLongLeg, halfLongLeg, "maxZ") >>
                  [] rot = 270 /\ slip # "no270" ->
                    << Offset(-halfLongLeg, 0, -halfLongLeg, "minX"),
                       Offset(halfLongLeg, -halfWidth + Half(shortLeg), halfLongLeg, "maxX"),
                       Offset(0, -halfWidth, -halfWidth, "minZ"),
                       Offset(halfLongLeg - halfWidth, shortLeg - halfWidth, shortLeg - halfWidth, "maxZ") >>
                  [] OTHER -> << >>
        ELSE
            << Offset(-24 * Inch, 0, -24 * Inch, "minX"),
               Offset(24 * Inch, 0, 24 * Inch, "maxX"),
               Offset(0, -7 * Inch, -7 * Inch, "minZ"),
               Offset(0, 7 * Inch, 7 * Inch, "maxZ") >>

getBlockFaceOffsetsNo270(type, core, rot) == getBlockFaceOffsetsWith(type, core, rot, "no270")

getBlockFaceOffsetsMidpoint(type, core, rot) == getBlockFaceOffsetsWith(type, core, rot, "midpoint")

getBlockFaceOffsets(type, core, rot) ==
    LET spec == ICF_BLOCK_CATALOG[type]
        width == getWidth(type, core)
        halfWidth == Half(width)
    IN  IF IsRectangular(type) THEN
            LET halfLength == Half(spec.length) IN
            IF rot = 0 \/ rot = 180
            THEN << Offset(-halfLength, 0, -halfLength, "minX"),
                    Offset(halfLength, 0, halfLength, "maxX"),
                    Offset(0, -halfWidth, -halfWidth, "minZ"),
                    Offset(0, halfWidth, halfWidth, "maxZ") >>
            ELSE << Offset(-halfWidth, 0, -halfWidth, "minX"),
                    Offset(halfWidth, 0, halfWidth, "maxX"),
                    Offset(0, -halfLength, -halfLength, "minZ"),
                    Offset(0, halfLength, halfLength, "maxZ") >>
        ELSE IF type = "corner90" THEN
            LET longLeg == OrElse(spec.longLeg, 616)
                shortLeg == OrElse(spec.shortLeg, 360)
                halfLongLeg == Half(longLeg)
            IN  CASE rot = 0 ->
                    << Offset(-halfWidth, 0, -halfWidth, "minX"),
                       Offset(shortLeg - halfWidth, -halfLongLeg + halfWidth, shortLeg - halfWidth, "maxX"),
                       Offset(-halfWidth + Half(shortLeg), -halfLongLeg, -halfLongLeg, "minZ"),
                       Offset(0, halfLongLeg, halfLongLeg, "maxZ") >>
                  [] rot = 90 ->
                    << Offset(-halfLongLeg, halfWidth - Half(shortLeg), -halfLongLeg, "minX"),
                       Offset(halfLongLeg, 0, halfLongLeg, "maxX"),
                       Offset(-halfLongLeg + halfWidth, -shortLeg + halfWidth, -shortLeg + halfWidth, "minZ"),
                       Offset(0, halfWidth, halfWidth, "maxZ") >>
                  [] rot = 180 ->
                    << Offset(-shortLeg + halfWidth, halfLongLeg - halfWidth, -shortLeg + halfWidth, "minX"),
                       Offset(halfWidth, 0, halfWidth, "maxX"),
                       Offset(0, -halfLongLeg, -halfLongLeg, "minZ"),
                       Offset(halfWidth - Half(shortLeg), halfLongLeg, halfLongLeg, "maxZ") >>
                  [] rot = 270 ->
                    << Offset(-halfLongLeg, 0, -halfLongLeg, "minX"),
                       Offset(halfLongLeg, -halfWidth + Half(shortLeg), halfLongLeg, "maxX"),
                       Offset(0, -halfWidth, -halfWidth, "minZ"),
                       Offset(halfLongLeg - halfWidth, shortLeg - halfWidth, shortLeg - halfWidth, "maxZ") >>
                  [] OTHER -> << >>   \* the switch has no default: offsets stays empty
        ELSE
            << Offset(-24 * Inch, 0, -24 * Inch, "minX"),
               Offset(24 * Inch, 0, 24 * Inch, "maxX"),
               Offset(0, -7 * Inch, -7 * Inch, "minZ"),
               Offset(0, 7 * Inch, 7 * Inch, "maxZ") >>

---------------------------------------------------------------------------
(* snapBlockPosition and snapToGrid *)

Vector3(x, y, z) == [x |-> x, y |-> y, z |-> z]

\* An optional field that was never assigned.
Undefined == "undefined"

\* A slip in the rounding: Math.floor in place of Math.round.
RoundToFloor(n, d) == (n \div d) * d

\* Math.round(n / d) * d for d > 0: Math.round rounds a half towards +Infinity.
\* n and d are in the same unit, so is the result.
RoundTo(n, d) == ((2 * n + d) \div (2 * d)) * d

\* The vertical module: Math.round(y / 16) * 16, 16 inches whatever the grid size.
RoundY(y) == RoundTo(y, 16 * Inch)

\* A slip in lines 689-692: any two faces on one axis make a pair.
validPairSameAxis(exFace, newFace) ==
    \/ exFace.orientation \in {"minX", "maxX"} /\ newFace.orientation \in {"minX", "maxX"}
    \/ exFace.orientation \in {"minZ", "maxZ"} /\ newFace.orientation \in {"minZ", "maxZ"}

\* Lines 688-694: the pair is valid when the faces oppose each other.
validPair(exFace, newFace) ==
    \/ exFace.orientation = "maxX" /\ newFace.orientation = "minX"
    \/ exFace.orientation = "minX" /\ newFace.orientation = "maxX"
    \/ exFace.orientation = "maxZ" /\ newFace.orientation = "minZ"
    \/ exFace.orientation = "minZ" /\ newFace.orientation = "maxZ"

\* A slip in line 705: the plane offset added instead of subtracted.
snapXAdded(exFace, newFace) ==
    IF exFace.orientation = "minX" \/ exFace.orientation = "maxX"
    THEN exFace.plane + newFace.planeOffset
    ELSE exFace.centerX - newFace.offsetX

\* Lines 698-717: where the new block's center would be if the two faces touched.
snapX(exFace, newFace) ==
    IF exFace.orientation = "minX" \/ exFace.orientation = "maxX"
    THEN exFace.plane - newFace.planeOffset
    ELSE exFace.centerX - newFace.offsetX

\* A slip in line 714: the plane offset added instead of subtracted.
snapZAdded(exFace, newFace) ==
    IF exFace.orientation = "minX" \/ exFace.orientation = "maxX"
    THEN exFace.centerZ - newFace.offsetZ
    ELSE exFace.plane + newFace.planeOffset

snapZ(exFace, newFace) ==
    IF exFace.orientation = "minX" \/ exFace.orientation = "maxX"
    THEN exFace.centerZ - newFace.offsetZ
    ELSE exFace.plane - newFace.planeOffset

\* Lines 720-723, squared: dist * dist.
dist2(raw, x, z) == (raw.x - x) * (raw.x - x) + (raw.z - z) * (raw.z - z)

\* A slip in line 725: dist <= SNAP_THRESHOLD.
withinThresholdOrAt(d2) == d2 <= SNAP_THRESHOLD * SNAP_THRESHOLD

\* Lines 725: dist < SNAP_THRESHOLD.
withinThreshold(d2) == d2 < SNAP_THRESHOLD * SNAP_THRESHOLD

\* A slip in line 725: the comparison with closestDistance left out.
closerThanDropped(d2, best) == TRUE

\* A slip in line 725: dist <= closestDistance.
closerThanOrEqual(d2, best) == (~best.snappedToBlock) \/ d2 <= best.closestDistance2

\* Lines 725: dist < closestDistance.  closestDistance is Infinity until the
\* first assignment, which is also the one that sets snappedToBlock.
closerThan(d2, best) == (~best.snappedToBlock) \/ d2 < best.closestDistance2

\* Lines 732-735: the edge name of the new block's face.
edgeName(orientation) ==
    CASE orientation = "minX" -> "left"
      [] orientation = "maxX" -> "right"
      [] orientation = "minZ" -> "back"
      [] orientation = "maxZ" -> "front"
      [] OTHER                -> Undefined

\* Lines 673-679: the locals before the loops.
snapLocals(raw) ==
    [bestSnapPosition |-> raw, closestDistance2 |-> 0, snappedToBlock |-> FALSE,
     snappedBlockId |-> Undefined, snapEdge |-> Undefined]

\* A slip in line 729: the block id is not recorded with the match.
snapStepNoId(best, raw, existingBlock, exFace, newFace) ==
    IF ~validPair(exFace, newFace) THEN best
    ELSE LET sx == snapX(exFace, newFace)
             sz == snapZ(exFace, newFace)
             d2 == dist2(raw, sx, sz)
         IN  IF withinThreshold(d2) /\ closerThan(d2, best)
             THEN [bestSnapPosition |-> Vector3(sx, raw.y, sz), closestDistance2 |-> d2,
                   snappedToBlock |-> TRUE, snappedBlockId |-> best.snappedBlockId,
                   snapEdge |-> edgeName(newFace.orientation)]
             ELSE best

\* A slip in line 727: the height of the matched block instead of the cursor's.
snapStepBlockY(best, raw, existingBlock, exFace, newFace) ==
    IF ~validPair(exFace, newFace) THEN best
    ELSE LET sx == snapX(exFace, newFace)
             sz == snapZ(exFace, newFace)
             d2 == dist2(raw, sx, sz)
         IN  IF withinThreshold(d2) /\ closerThan(d2, best)
             THEN [bestSnapPosition |-> Vector3(sx, existingBlock.position.y, sz),
                   closestDistance2 |-> d2,
                   snappedToBlock |-> TRUE, snappedBlockId |-> existingBlock.id,
                   snapEdge |-> edgeName(newFace.orientation)]
             ELSE best

\* One iteration of the innermost loop body (lines 686-736).
snapStep(best, raw, existingBlock, exFace, newFace) ==
    IF ~validPair(exFace, newFace) THEN best
    ELSE LET sx == snapX(exFace, newFace)
             sz == snapZ(exFace, newFace)
             d2 == dist2(raw, sx, sz)
         IN  IF withinThreshold(d2) /\ closerThan(d2, best)
             THEN [bestSnapPosition |-> Vector3(sx, raw.y, sz), closestDistance2 |-> d2,
                   snappedToBlock |-> TRUE, snappedBlockId |-> existingBlock.id,
                   snapEdge |-> edgeName(newFace.orientation)]
             ELSE best

\* for (const newFace of newFaceOffsets), from index k on.
RECURSIVE loopNewFaces(_, _, _, _, _, _)
loopNewFaces(best, raw, existingBlock, exFace, newFaceOffsets, k) ==
    IF k > Len(newFaceOffsets) THEN best
    ELSE loopNewFaces(snapStep(best, raw, existingBlock, exFace, newFaceOffsets[k]),
                      raw, existingBlock, exFace, newFaceOffsets, k + 1)

\* for (const exFace of exFaces), from index j on.
RECURSIVE loopExFaces(_, _, _, _, _, _)
loopExFaces(best, raw, existingBlock, exFaces, newFaceOffsets, j) ==
    IF j > Len(exFaces) THEN best
    ELSE loopExFaces(loopNewFaces(best, raw, existingBlock, exFaces[j], newFaceOffsets, 1),
                     raw, existingBlock, exFaces, newFaceOffsets, j + 1)

\* for (const existingBlock of existingBlocks), from index i on.
RECURSIVE loopBlocks(_, _, _, _, _)
loopBlocks(best, raw, blocks, newFaceOffsets, i) ==
    IF i > Len(blocks) THEN best
    ELSE loopBlocks(loopExFaces(best, raw, blocks[i], getBlockFaces(blocks[i]), newFaceOffsets, 1),
                    raw, blocks, newFaceOffsets, i + 1)

\* A slip in line 766: y rounded to the grid size like x and z.
snapToGridUniform(position, grid) ==
    Vector3(RoundTo(position.x, grid), RoundTo(position.y, grid), RoundTo(position.z, grid))

\* A slip in line 766: Math.round(position.y / 16) * gridSize.
snapToGridMixed(position, grid) ==
    Vector3(RoundTo(position.x, grid),
            ((2 * position.y + 16 * Inch) \div (2 * 16 * Inch)) * grid,
            RoundTo(position.z, grid))

\* Scene3D.snapToGrid(position): the method, with 8 inches for X and Z.
Scene3D_snapToGrid(position) ==
    Vector3(RoundTo(position.x, 8 * Inch), RoundTo(position.y, 16 * Inch),
            RoundTo(position.z, 8 * Inch))

\* snapToGrid(position, gridSize).
snapToGrid(position, grid) ==
    Vector3(RoundTo(position.x, grid), RoundY(position.y), RoundTo(position.z, grid))

\* A slip in line 745: y rounded to the grid size like x and z.
gridFallbackUniform(raw, grid) ==
    Vector3(RoundTo(raw.x, grid), RoundTo(raw.y, grid), RoundTo(raw.z, grid))

\* The grid position of lines 742-748.
gridFallback(raw, grid) ==
    Vector3(RoundTo(raw.x, grid), RoundY(raw.y), RoundTo(raw.z, grid))

\* snapBlockPosition, for arguments on which it does not throw.
snapBlockPosition(raw, type, core, rot, blocks, grid) ==
    LET newFaceOffsets == getBlockFaceOffsets(type, core, rot)
        best == loopBlocks(snapLocals(raw), raw, blocks, newFaceOffsets, 1)
    IN  [position |-> IF ~best.snappedToBlock THEN gridFallback(raw, grid)
                      ELSE best.bestSnapPosition,
         snappedToBlock |-> best.snappedToBlock,
         snappedBlockId |-> best.snappedBlockId,
         snapEdge |-> best.snapEdge]

\* Which object the position returned is: the argument itself, the copy of
\* line 673, or a vector made by `new` in the function.
ObjectTags == {"rawPosition", "clone", "new"}

\* The object snapBlockPosition returns as `position`: bestSnapPosition starts
\* as rawPosition.clone() (line 673) and is assigned a new vector at a match
\* (line 727) and in the fallback (line 743).
snapBlockPositionObject(snappedToBlock) ==
    LET atLine673 == "clone"
        atLine727 == IF snappedToBlock THEN "new" ELSE atLine673
        atLine743 == IF ~snappedToBlock THEN "new" ELSE atLine727
    IN  atLine743

\* The object snapToGrid returns: `new THREE.Vector3(...)` (line 764).
snapToGridObject == "new"

\* snapBlockPosition throws when getBlockFaceOffsets does (line 671) or when
\* getBlockFaces does for a block of the list (line 682).
snapBlockPositionThrows(type, blocks) ==
    CatalogThrows(type) \/ \E i \in 1..Len(blocks) : CatalogThrows(blocks[i].type)

---------------------------------------------------------------------------
(* Inputs *)

\* At most this many blocks in existingBlocks.
MaxBlocks == 2

ICFBlock(id, type, core, position, rot) ==
    [id |-> id, type |-> type, coreThickness |-> core, position |-> position, rotation |-> rot]

\* The rotations rotateSelection produces.
Rotations == {0, 90, 180, 270}

\* `rotation: number`: one value that is no quarter turn stands for the others.
AnyRotation == Rotations \cup {45}

\* `type` of a block read from an imported project need not be a catalog key.
AnyType == ICFBlockType \cup {"lintel"}

\* The blocks a project of the snapping runs is made of.
UnitPool ==
    { ICFBlock("a", "standard", 8, Vector3(0, 0, 0), 0),
      ICFBlock("b", "standard", 8, Vector3(96 * Inch, 0, 0), 0),
      ICFBlock("c", "corner90", 8, Vector3(-64 * Inch, 0, 80 * Inch), 90),
      ICFBlock("d", "corner45", 6, Vector3(120 * Inch, 16 * Inch, -88 * Inch), 180),
      ICFBlock("e", "taperTop", 10, Vector3(16 * Inch + 8, 0, -72 * Inch - 4), 270) }

\* The lists of at most MaxBlocks blocks of the pool, ids distinct, in every order.
UnitLists ==
    UNION { { s \in [1..n -> UnitPool] : \A i, j \in 1..n : i # j => s[i].id # s[j].id }
            : n \in 0..MaxBlocks }

\* Cursor positions: the two scenarios, the threshold boundary seen from
\* block a (150 and 150 - 1/16 from the solution (48, 0)), exact ties,
\* halves that Math.round sends up, and a position off every grid.
RawPositions ==
    { Vector3(50 * Inch, 0, 2 * Inch),
      Vector3(500 * Inch, 0, 500 * Inch),
      Vector3(198 * Inch, 0, 0),
      Vector3(198 * Inch - 1, 0, 0),
      Vector3(48 * Inch, 9 * Inch, 0),
      Vector3(0, 0, 0),
      Vector3(4 * Inch, -8 * Inch, -4 * Inch),
      Vector3(-60 * Inch - 8, 24 * Inch, 30 * Inch + 4) }

SnapTypes == {"standard", "corner90", "corner45"}

\* gridSize: the default of 8 inches and another one.
GridSizes == {8 * Inch, 6 * Inch}

\* Positions of the block of the geometry runs.
GeomPositions == { Vector3(0, 0, 0), Vector3(-40 * Inch - 8, 16 * Inch, 27 * Inch + 1) }

\* The cursor of the grid runs moves in steps of half an inch up to
\* GridSteps steps either side of the origin.
GridSteps == 40

\* Heights of the grid runs: multiples of 16, halves of the module on both
\* sides of zero, and heights next to a half.
GridHeights ==
    { -24 * Inch, -8 * Inch, -8 * Inch - 1, -3 * Inch, 0, 8 * Inch - 1, 8 * Inch, 16 * Inch, 40 * Inch }

\* Grid sizes of the grid runs; half of each is a cursor coordinate.
GridRunSizes == { Inch, 6 * Inch, 8 * Inch, 24 * Inch }

\* selectedElementId: string | null.
Null == "null"

\* The ids of a list of blocks.
Ids(blocks) == { blocks[i].id : i \in 1..Len(blocks) }

\* No call of ProjectState was made yet.
NoPre == [op |-> "none"]

\* The ProjectState after the constructor and importJSON of a project with
\* the blocks of existingBlocks, the listener having rebuilt the scene:
\* the snapshot of the empty project and the snapshot of the imported one.
ProjectLoaded ==
    /\ history = << << >>, existingBlocks >>
    /\ historyIndex = 1
    /\ selectedElementId = Null
    /\ meshMap = Ids(existingBlocks)
    /\ notified = 0
    /\ calls = 0
    /\ pre = NoPre

NoCall == op = "none" /\ arg = 0 /\ raised = FALSE /\ ret = << >> /\ retObject = "none" /\ ProjectLoaded

\* Snapping runs: a project of pool blocks, the tool state, a cursor position.
Init ==
    /\ existingBlocks \in UnitLists
    /\ rawPosition \in RawPositions
    /\ blockType \in SnapTypes
    /\ coreThickness = 8
    /\ rotation \in Rotations
    /\ gridSize \in GridSizes
    /\ NoCall

\* Geometry runs: one block of any type, thickness and rotation, and a
\* candidate of any type and rotation.
InitGeom ==
    /\ \E type \in AnyType, core \in ICFCoreThickness, rot \in AnyRotation, pos \in GeomPositions :
          existingBlocks = << ICFBlock("u", type, core, pos, rot) >>
    /\ rawPosition = Vector3(-10 * Inch, 3 * Inch, 20 * Inch + 8)
    /\ blockType \in AnyType
    /\ coreThickness \in {4, 12}
    /\ rotation \in AnyRotation
    /\ gridSize = 8 * Inch
    /\ NoCall

\* Grid runs: one block, a cursor on the half-inch lattice with x and z of
\* opposite signs, a grid size.
InitGrid ==
    /\ existingBlocks = << ICFBlock("a", "standard", 8, Vector3(0, 0, 0), 0) >>
    /\ \E k \in -GridSteps..GridSteps, y \in GridHeights :
          rawPosition = Vector3(k * (Inch \div 2), y, -k * (Inch \div 2) - Inch \div 2)
    /\ blockType = "standard"
    /\ coreThickness = 8
    /\ rotation = 0
    /\ gridSize \in GridRunSizes
    /\ NoCall

---------------------------------------------------------------------------
(* Calls *)

\* A call of a function of BlockSnapping that returns a position: `object`
\* tells which object that position is.  The functions assign to no field of
\* their arguments and do not know the ProjectState.
ReturnObject(name, i, throws, value, object) ==
    /\ op = "none"
    /\ op' = name
    /\ arg' = i
    /\ raised' = throws
    /\ ret' = value
    /\ retObject' = object
    /\ UNCHANGED inputs
    /\ UNCHANGED projectVars

Return(name, i, throws, value) == ReturnObject(name, i, throws, value, "none")

CallGetBlockBounds ==
    \E i \in 1..Len(existingBlocks) :
        LET throws == CatalogThrows(existingBlocks[i].type) IN
        Return("getBlockBounds", i, throws,
               IF throws THEN << >> ELSE getBlockBounds(existingBlocks[i]))

CallGetBlockFaces ==
    \E i \in 1..Len(existingBlocks) :
        LET throws == CatalogThrows(existingBlocks[i].type) IN
        Return("getBlockFaces", i, throws,
               IF throws THEN << >> ELSE getBlockFaces(existingBlocks[i]))

CallGetBlockFaceOffsets ==
    LET throws == CatalogThrows(blockType) IN
    Return("getBlockFaceOffsets", 0, throws,
           IF throws THEN << >> ELSE getBlockFaceOffsets(blockType, coreThickness, rotation))

\* A slip: the fallback rounds the argument in place (rawPosition.set(...))
\* and returns it.
CallSnapBlockPositionInPlace ==
    LET throws == snapBlockPositionThrows(blockType, existingBlocks)
        result == snapBlockPosition(rawPosition, blockType, coreThickness, rotation,
                                    existingBlocks, gridSize)
    IN  /\ op = "none"
        /\ op' = "snapBlockPosition"
        /\ arg' = 0
        /\ raised' = throws
        /\ ret' = IF throws THEN << >> ELSE result
        /\ retObject' = IF throws THEN "none"
                        ELSE IF result.snappedToBlock THEN "new" ELSE "rawPosition"
        /\ rawPosition' = IF throws \/ result.snappedToBlock THEN rawPosition
                          ELSE result.position
        /\ UNCHANGED <<existingBlocks, blockType, coreThickness, rotation, gridSize>>
        /\ UNCHANGED projectVars

CallSnapBlockPosition ==
    LET throws == snapBlockPositionThrows(blockType, existingBlocks)
        result == snapBlockPosition(rawPosition, blockType, coreThickness, rotation,
                                    existingBlocks, gridSize)
    IN  ReturnObject("snapBlockPosition", 0, throws,
                     IF throws THEN << >> ELSE result,
                     IF throws THEN "none" ELSE snapBlockPositionObject(result.snappedToBlock))

CallSnapToGrid ==
    ReturnObject("snapToGrid", 0, FALSE, snapToGrid(rawPosition, gridSize), snapToGridObject)

CallScene3DSnapToGrid ==
    ReturnObject("Scene3D.snapToGrid", 0, FALSE, Scene3D_snapToGrid(rawPosition), "new")

Next ==
    \/ CallGetBlockBounds
    \/ CallGetBlockFaces
    \/ CallGetBlockFaceOffsets
    \/ CallSnapBlockPosition
    \/ CallSnapToGrid
    \/ CallScene3DSnapToGrid

Spec == Init /\ [][Next]_vars

SpecGeom == InitGeom /\ [][Next]_vars

SpecGrid == InitGrid /\ [][Next]_vars

---------------------------------------------------------------------------
(* ProjectState (elements/BlockFactory.ts) and the handlers of main.ts that
   call it.  Of the project only elements.icfBlocks is modelled: the handlers
   of main.ts add to no other array.  A method is an operator from the
   object `this`, a record of the fields, to the object after the call, the
   value returned and whether the call threw. *)

\* private maxHistory: number = 50.
maxHistory == 50

\* createEmptyProject().elements.icfBlocks.
createEmptyProject == << >>

\* generateId(): `${Date.now()}-${random}`, a string no earlier call made;
\* modelled by the number of the call.
generateId(n) == ToString(n)

\* JSON.parse(JSON.stringify(project)): a copy, field by field, of the
\* blocks; a field that is absent (areaId, color) stays absent, and the
\* numbers of the model (finite, no negative zero) are written and read
\* back exactly.
JSONClone(blocks) ==
    [i \in 1..Len(blocks) |->
        [f \in DOMAIN blocks[i] |->
            IF f = "position"
            THEN Vector3(blocks[i].position.x, blocks[i].position.y, blocks[i].position.z)
            ELSE blocks[i][f]]]

\* The fields of `this`.
This(blocks, h, idx, rot, selected, meshes, n) ==
    [icfBlocks |-> blocks, history |-> h, historyIndex |-> idx, currentRotation |-> rot,
     selectedElementId |-> selected, meshMap |-> meshes, notified |-> n]

\* What a method gives: the object after the call, the value returned,
\* whether it threw.
Result(this, value, throws) == [this |-> this, ret |-> value, raised |-> throws]

\* rebuildScene of main.ts, the onChange listener (main.ts line 34): the old
\* meshes are taken out of the scene, not out of the map, and a mesh is
\* registered for every block when the ICF layer is visible.
rebuildScene(meshes, blocks, icfVisible) ==
    IF icfVisible THEN meshes \cup Ids(blocks) ELSE meshes

\* notifyChange(): the listeners run once more.
notifyChange(this) ==
    [this EXCEPT !.notified = @ + 1,
                 !.meshMap = rebuildScene(@, this.icfBlocks, TRUE)]

\* history[i] of the code, i counted from 0.
HistoryAt(h, i) == h[i + 1]

\* A slip in lines 419-421: the future is kept when a snapshot is pushed.
saveToHistoryKeepsFuture(this) ==
    LET pushed == Append(this.history, JSONClone(this.icfBlocks))
        limited == IF Len(pushed) > maxHistory THEN Tail(pushed) ELSE pushed
    IN  [this EXCEPT !.history = limited, !.historyIndex = Len(limited) - 1]

\* A slip in lines 427-429: the history is never cut.
saveToHistoryUnlimited(this) ==
    LET cut == IF this.historyIndex < Len(this.history) - 1
               THEN SubSeq(this.history, 1, this.historyIndex + 1)
               ELSE this.history
        pushed == Append(cut, JSONClone(this.icfBlocks))
    IN  [this EXCEPT !.history = pushed, !.historyIndex = Len(pushed) - 1]

saveToHistory(this) ==
    LET cut == IF this.historyIndex < Len(this.history) - 1
               THEN SubSeq(this.history, 1, this.historyIndex + 1)
               ELSE this.history
        pushed == Append(cut, JSONClone(this.icfBlocks))
        limited == IF Len(pushed) > maxHistory THEN Tail(pushed) ELSE pushed
    IN  [this EXCEPT !.history = limited, !.historyIndex = Len(limited) - 1]

\* A slip in line 436: the snapshot is read before the index is moved.
undoStale(this) ==
    IF this.historyIndex > 0
    THEN Result(notifyChange([this EXCEPT
                    !.historyIndex = @ - 1,
                    !.icfBlocks = JSONClone(HistoryAt(this.history, this.historyIndex))]),
                TRUE, FALSE)
    ELSE Result(this, FALSE, FALSE)

undo(this) ==
    IF this.historyIndex > 0
    THEN Result(notifyChange([this EXCEPT
                    !.historyIndex = @ - 1,
                    !.icfBlocks = JSONClone(HistoryAt(this.history, this.historyIndex - 1))]),
                TRUE, FALSE)
    ELSE Result(this, FALSE, FALSE)

redo(this) ==
    IF this.historyIndex < Len(this.history) - 1
    THEN Result(notifyChange([this EXCEPT
                    !.historyIndex = @ + 1,
                    !.icfBlocks = JSONClone(HistoryAt(this.history, this.historyIndex + 1))]),
                TRUE, FALSE)
    ELSE Result(this, FALSE, FALSE)

addICFBlock(this, position, id, type, core) ==
    LET block == ICFBlock(id, type, core, Vector3(position.x, position.y, position.z),
                          this.currentRotation)
        pushed == [this EXCEPT !.icfBlocks = Append(@, block)]
    IN  Result(notifyChange(saveToHistory(pushed)), block, FALSE)

\* findIndex(b => b.id === id), counted from 1; 0 when there is none.
findIndex(blocks, id) ==
    IF \E i \in 1..Len(blocks) : blocks[i].id = id
    THEN CHOOSE i \in 1..Len(blocks) :
            blocks[i].id = id /\ \A j \in 1..(i - 1) : blocks[j].id # id
    ELSE 0

\* splice(index, 1).
splice(blocks, index) ==
    [i \in 1..(Len(blocks) - 1) |-> IF i < index THEN blocks[i] ELSE blocks[i + 1]]

removeICFBlock(this, id) ==
    LET index == findIndex(this.icfBlocks, id) IN
    IF index > 0
    THEN Result(notifyChange(saveToHistory([this EXCEPT !.icfBlocks = splice(@, index)])),
                TRUE, FALSE)
    ELSE Result(this, FALSE, FALSE)

\* Object.assign(block, updates).
ObjectAssign(block, updates) ==
    [f \in DOMAIN block \cup DOMAIN updates |->
        IF f \in DOMAIN updates THEN updates[f] ELSE block[f]]

updateICFBlock(this, id, updates) ==
    LET index == findIndex(this.icfBlocks, id) IN
    IF index > 0
    THEN Result(notifyChange(saveToHistory(
                    [this EXCEPT !.icfBlocks[index] = ObjectAssign(@, updates)])),
                TRUE, FALSE)
    ELSE Result(this, FALSE, FALSE)

\* deleteElement: the first array that holds the id; icfBlocks is the first
\* one and the others are empty.
deleteElement(this, id) ==
    LET index == findIndex(this.icfBlocks, id) IN
    IF index > 0
    THEN Result(notifyChange(saveToHistory([this EXCEPT !.icfBlocks = splice(@, index)])),
                TRUE, FALSE)
    ELSE Result(this, FALSE, FALSE)

\* A slip in line 573: the turn is not taken modulo 360.
rotateSelectionNoModulo(this) ==
    LET turned == [this EXCEPT !.currentRotation = @ + 90]
        updated == IF turned.selectedElementId # Null
                   THEN updateICFBlock(turned, turned.selectedElementId,
                                       [rotation |-> turned.currentRotation]).this
                   ELSE turned
    IN  Result(notifyChange(updated), << >>, FALSE)

rotateSelection(this) ==
    LET turned == [this EXCEPT !.currentRotation = (@ + 90) % 360]
        updated == IF turned.selectedElementId # Null
                   THEN updateICFBlock(turned, turned.selectedElementId,
                                       [rotation |-> turned.currentRotation]).this
                   ELSE turned
    IN  Result(notifyChange(updated), << >>, FALSE)

\* The text handed to importJSON, by what JSON.parse makes of it: no JSON
\* at all, the value null, an object without version, an object without
\* elements, or a project with a list of blocks.
JSONText(kind, blocks) == [kind |-> kind, icfBlocks |-> blocks]

\* JSON.parse(json) throws, or a test of lines 619-623 does.
importThrows(json) == json.kind # "project"

\* A slip in lines 619-624: the project is assigned before it is validated.
importJSONAssignsFirst(this, json) ==
    IF importThrows(json)
    THEN IF json.kind \in {"noVersion", "noElements"}
         THEN Result([this EXCEPT !.icfBlocks = json.icfBlocks], << >>, TRUE)
         ELSE Result(this, << >>, TRUE)
    ELSE Result(notifyChange(saveToHistory([this EXCEPT !.icfBlocks = json.icfBlocks])),
                << >>, FALSE)

importJSON(this, json) ==
    IF importThrows(json)
    THEN Result(this, << >>, TRUE)
    ELSE Result(notifyChange(saveToHistory([this EXCEPT !.icfBlocks = json.icfBlocks])),
                << >>, FALSE)

\* localStorage.getItem('icf-project'): a text, or NoItem when nothing was saved.
NoItem == [kind |-> "null item", icfBlocks |-> << >>]

loadFromLocalStorage(this, saved) ==
    IF saved # NoItem
    THEN LET imported == importJSON(this, saved) IN
         IF imported.raised THEN Result(imported.this, FALSE, FALSE)
         ELSE Result(imported.this, TRUE, FALSE)
    ELSE Result(this, FALSE, FALSE)

newProject(this) ==
    LET emptied == [this EXCEPT !.icfBlocks = createEmptyProject,
                                !.history = << >>,
                                !.historyIndex = -1]
        saved == saveToHistory(emptied)
        cleared == [saved EXCEPT !.meshMap = {}, !.selectedElementId = Null]
    IN  Result(notifyChange(cleared), << >>, FALSE)

---------------------------------------------------------------------------
(* Runs of the ProjectState *)

\* At most this many calls are made on the ProjectState in a run.
MaxCalls == 4

\* The object as the variables hold it at the start of a call.
this == This(existingBlocks, history, historyIndex, rotation, selectedElementId, meshMap, 0)

\* Where the user clicks to place a block.
PlaceRaws == { Vector3(50 * Inch, 0, 2 * Inch) }

\* Texts given to importJSON.
JSONTexts ==
    { JSONText("notJSON", << >>), JSONText("null", << >>),
      JSONText("noVersion", << ICFBlock("a", "standard", 8, Vector3(0, 0, 0), 0) >>),
      JSONText("noElements", << >>),
      JSONText("project", << ICFBlock("a", "standard", 8, Vector3(0, 0, 0), 0),
                             ICFBlock("c", "corner90", 8, Vector3(-64 * Inch, 0, 80 * Inch), 90) >>) }

\* What localStorage holds.
SavedItems == { NoItem, JSONText("notJSON", << >>),
                JSONText("project", << ICFBlock("b", "standard", 8, Vector3(96 * Inch, 0, 0), 0) >>) }

\* The block of the long history, placed before the run.
Turning(rot) == ICFBlock(generateId(1 - maxHistory), "standard", 8, Vector3(0, 0, 0), rot)

\* The history after a block was placed at rotation 0, selected, and turned
\* n - 2 times with 'Rotate 90': the empty project, the block at 0, at 90, ...
PlacedAndTurned(n) ==
    [k \in 1..n |-> IF k = 1 THEN << >> ELSE << Turning(((k - 2) * 90) % 360) >>]

\* Project runs start from the ProjectState after its constructor, or from
\* one whose history is one short of maxHistory.
InitProject ==
    /\ \/ /\ history = << createEmptyProject >>
          /\ historyIndex = 0
          /\ existingBlocks = createEmptyProject
          /\ meshMap = {}
          /\ rotation = 0
          /\ selectedElementId = Null
       \/ /\ history = PlacedAndTurned(maxHistory - 1)
          /\ historyIndex = maxHistory - 2
          /\ existingBlocks = history[maxHistory - 1]
          /\ meshMap = Ids(existingBlocks)
          /\ rotation = existingBlocks[1].rotation
          /\ selectedElementId = existingBlocks[1].id
    /\ rawPosition = Vector3(0, 0, 0)
    /\ blockType = "standard"
    /\ coreThickness = 8
    /\ gridSize = 8 * Inch
    /\ notified = 0
    /\ calls = 0
    /\ pre = NoPre
    /\ op = "none" /\ arg = 0 /\ raised = FALSE /\ ret = << >> /\ retObject = "none"

\* A call `name` with argument `a` whose outcome is the result r.
Apply(name, a, r) ==
    /\ calls < MaxCalls
    /\ calls' = calls + 1
    /\ pre' = [op |-> op, ret |-> ret, raised |-> raised, this |-> this]
    /\ op' = name
    /\ arg' = a
    /\ raised' = r.raised
    /\ ret' = r.ret
    /\ retObject' = "none"
    /\ existingBlocks' = r.this.icfBlocks
    /\ history' = r.this.history
    /\ historyIndex' = r.this.historyIndex
    /\ rotation' = r.this.currentRotation
    /\ selectedElementId' = r.this.selectedElementId
    /\ meshMap' = r.this.meshMap
    /\ notified' = r.this.notified
    /\ UNCHANGED <<blockType, coreThickness, gridSize>>

\* onClick with the tool 'place' (main.ts 465-476, 486-490): the position
\* comes from snapBlockPosition, with the default gridSize of 8.  A project
\* is given at most MaxBlocks blocks this way.
PlaceElement ==
    \E raw \in PlaceRaws :
        /\ Len(existingBlocks) < MaxBlocks
        /\ ~snapBlockPositionThrows(blockType, existingBlocks)
        /\ rawPosition' = raw
        /\ Apply("addICFBlock", raw,
                 addICFBlock(this,
                             snapBlockPosition(raw, blockType, coreThickness, rotation,
                                               existingBlocks, 8 * Inch).position,
                             generateId(calls), blockType, coreThickness))

\* onClick with the tool 'select' (main.ts 494-510): a mesh of the map is
\* hit, or none is; the scene is rebuilt.
SelectElement ==
    \E id \in meshMap \cup {Null} :
        /\ UNCHANGED rawPosition
        /\ Apply("selectElement", id,
                 Result([this EXCEPT !.selectedElementId = id,
                                     !.meshMap = rebuildScene(@, existingBlocks, TRUE)],
                        << >>, FALSE))

\* onClick with the tool 'delete' (main.ts 512-523): a mesh of the map is hit.
DeleteElement ==
    \E id \in meshMap :
        /\ UNCHANGED rawPosition
        /\ Apply("deleteElement", id, deleteElement(this, id))

\* The Delete key (main.ts 551-557).
DeleteSelected ==
    /\ selectedElementId # Null
    /\ UNCHANGED rawPosition
    /\ LET deleted == deleteElement(this, selectedElementId) IN
       Apply("deleteSelected", selectedElementId,
             Result([deleted.this EXCEPT !.selectedElementId = Null], deleted.ret, FALSE))

RemoveICFBlock ==
    \E id \in Ids(existingBlocks) \cup {"gone"} :
        /\ UNCHANGED rawPosition
        /\ Apply("removeICFBlock", id, removeICFBlock(this, id))

UpdateICFBlock ==
    \E id \in Ids(existingBlocks) \cup {"gone"} :
        /\ UNCHANGED rawPosition
        /\ Apply("updateICFBlock", id,
                 updateICFBlock(this, id, [position |-> Vector3(8 * Inch, 16 * Inch, -8 * Inch)]))

RotateSelection ==
    /\ UNCHANGED rawPosition
    /\ Apply("rotateSelection", selectedElementId, rotateSelection(this))

Undo ==
    /\ UNCHANGED rawPosition
    /\ Apply("undo", 0, undo(this))

Redo ==
    /\ UNCHANGED rawPosition
    /\ Apply("redo", 0, redo(this))

ImportJSON ==
    \E json \in JSONTexts :
        /\ UNCHANGED rawPosition
        /\ Apply("importJSON", json, importJSON(this, json))

LoadFromLocalStorage ==
    \E saved \in SavedItems :
        /\ UNCHANGED rawPosition
        /\ Apply("loadFromLocalStorage", saved, loadFromLocalStorage(this, saved))

\* The button 'New' (main.ts 328-333): newProject(), then rebuildScene().
NewProject ==
    /\ UNCHANGED rawPosition
    /\ LET made == newProject(this) IN
       Apply("newProject", 0,
             Result([made.this EXCEPT !.meshMap = rebuildScene(@, made.this.icfBlocks, TRUE)],
                    << >>, FALSE))

NextProject ==
    \/ PlaceElement
    \/ SelectElement
    \/ DeleteElement
    \/ DeleteSelected
    \/ RemoveICFBlock
    \/ UpdateICFBlock
    \/ RotateSelection
    \/ Undo
    \/ Redo
    \/ ImportJSON
    \/ LoadFromLocalStorage
    \/ NewProject

SpecProject == InitProject /\ [][NextProject]_vars

---------------------------------------------------------------------------
(* Vocabulary of the properties *)

\* The call `name` has returned normally.
Returned(name) == op = name /\ ~raised

\* Opposing orientations on one axis, as the specification words them.
Opposes(a, b) ==
    <<a, b>> \in { <<"maxX", "minX">>, <<"minX", "maxX">>, <<"maxZ", "minZ">>, <<"minZ", "maxZ">> }

\* The edge label of a candidate orientation, as the specification words it.
EdgeLabel == [o \in {"minX", "maxX", "minZ", "maxZ"} |->
                 CASE o = "minX" -> "left" [] o = "maxX" -> "right"
                   [] o = "minZ" -> "back" [] OTHER -> "front"]

\* The candidate block of the state, placed at (x, y, z).
Placed(x, y, z) == ICFBlock("new", blockType, coreThickness, Vector3(x, y, z), rotation)

\* Every (block i, face j of it, candidate offset k) whose faces oppose, with
\* the position that makes the two faces coincide and its squared distance
\* to the cursor.
Solutions ==
    LET offs == getBlockFaceOffsets(blockType, coreThickness, rotation)
        faces == [i \in 1..Len(existingBlocks) |-> getBlockFaces(existingBlocks[i])]
        Solve(i, j, k) ==
            LET sx == snapX(faces[i][j], offs[k])
                sz == snapZ(faces[i][j], offs[k])
            IN  [i |-> i, j |-> j, k |-> k, id |-> existingBlocks[i].id,
                 exFace |-> faces[i][j], newFace |-> offs[k],
                 x |-> sx, z |-> sz, d2 |-> dist2(rawPosition, sx, sz)]
    IN  { Solve(t[1], t[2], t[3]) :
            t \in { u \in (1..Len(existingBlocks)) \X (1..4) \X (1..4) :
                      /\ u[2] <= Len(faces[u[1]])
                      /\ u[3] <= Len(offs)
                      /\ Opposes(faces[u[1]][u[2]].orientation, offs[u[3]].orientation) } }

\* 150 inches, squared.
Threshold2 == (150 * Inch) * (150 * Inch)

\* The solutions of S strictly within the threshold.
Near(S) == { s \in S : s.d2 < Threshold2 }

\* s comes before t in the iteration order: blocks, then faces, then offsets.
Before(s, t) ==
    \/ s.i < t.i
    \/ s.i = t.i /\ s.j < t.j
    \/ s.i = t.i /\ s.j = t.j /\ s.k < t.k

\* The scenario of the specification: one standard block with an 8 inch core
\* at the origin, rotation 0, and an identical block being placed.
ScenarioUnit == ICFBlock("a", "standard", 8, Vector3(0, 0, 0), 0)

Scenario(raw) ==
    /\ existingBlocks = << ScenarioUnit >>
    /\ blockType = "standard" /\ coreThickness = 8 /\ rotation = 0
    /\ rawPosition = raw
    /\ Returned("snapBlockPosition")

---------------------------------------------------------------------------
(* Properties *)

\* C1 (as amended): in the scenario with the cursor at (50, 0, 2),
\* snapBlockPosition reports a match to the block's +X face: the new center
\* is (48, 0, 0), which puts the candidate's -X face on the plane x = 24 of
\* the existing +X face, and the edge label is 'left', the name of the
\* candidate's own face.
C1_ScenarioSnap ==
    Scenario(Vector3(50 * Inch, 0, 2 * Inch)) =>
        /\ ret.snappedToBlock
        /\ ret.snappedBlockId = ScenarioUnit.id
        /\ ret.position = Vector3(48 * Inch, 0, 0)
        /\ ret.position.x - 24 * Inch = getBlockFaces(ScenarioUnit)[2].plane
        /\ getBlockFaces(ScenarioUnit)[2].orientation = "maxX"
        /\ ret.snapEdge = "left"

\* C1, the scenario after the call.
C1_Witness == Scenario(Vector3(50 * Inch, 0, 2 * Inch)) /\ ret.snappedToBlock

\* C1 as claimed: the new center is (72, 0, 0) and the edge label is 'right'.
C1_AsClaimed ==
    Scenario(Vector3(50 * Inch, 0, 2 * Inch)) =>
        /\ ret.snappedToBlock
        /\ ret.snappedBlockId = ScenarioUnit.id
        /\ ret.position = Vector3(72 * Inch, 0, 0)
        /\ ret.snapEdge = "right"

\* C2 (as amended): in the scenario with the cursor at (500, 0, 500) and a
\* grid of 8, snapBlockPosition reports no match and returns (504, 0, 504):
\* Math.round(62.5) is 63.
C2_ScenarioGrid ==
    (Scenario(Vector3(500 * Inch, 0, 500 * Inch)) /\ gridSize = 8 * Inch) =>
        /\ ~ret.snappedToBlock
        /\ ret.position = Vector3(504 * Inch, 0, 504 * Inch)

\* C2, the scenario after the call.
C2_Witness ==
    /\ Scenario(Vector3(500 * Inch, 0, 500 * Inch)) /\ gridSize = 8 * Inch
    /\ ~ret.snappedToBlock

\* C2 as claimed: the grid position returned is (496, 0, 496).
C2_AsClaimed ==
    (Scenario(Vector3(500 * Inch, 0, 500 * Inch)) /\ gridSize = 8 * Inch) =>
        /\ ~ret.snappedToBlock
        /\ ret.position = Vector3(496 * Inch, 0, 496 * Inch)

\* C3: round trip of a solved pair.  For a candidate of a catalogued category
\* at a quarter-turn rotation and every opposing pair (face of an existing
\* block, candidate face offset), a block of the candidate's category and
\* rotation placed at the position solved for the pair has, among the faces
\* getBlockFaces computes for it, a face of the candidate's orientation on the
\* plane of the existing face.
C3_RoundTrip ==
    (Returned("snapBlockPosition") /\ blockType \in ICFBlockType /\ rotation \in Rotations) =>
        \A s \in Solutions :
            LET faces == getBlockFaces(Placed(s.x, rawPosition.y, s.z)) IN
            \E j \in 1..Len(faces) :
                /\ faces[j].orientation = s.newFace.orientation
                /\ faces[j].plane = s.exFace.plane

\* The face offsets of a category, thickness and rotation translated to p.
Translated(offsets, p) ==
    [k \in 1..Len(offsets) |->
        Face(p.x + offsets[k].offsetX, p.z + offsets[k].offsetZ,
             (IF offsets[k].orientation \in {"minX", "maxX"} THEN p.x ELSE p.z)
                 + offsets[k].planeOffset,
             offsets[k].orientation)]

\* C4: getBlockFaces and getBlockFaceOffsets use identical formulas.  The
\* faces of a block of a catalogued category at a quarter-turn rotation are
\* the face offsets of its category, thickness and rotation translated by its
\* position.
C4_SameFormulas ==
    (Returned("getBlockFaces") /\ existingBlocks[arg].rotation \in Rotations) =>
        ret = Translated(getBlockFaceOffsets(existingBlocks[arg].type,
                                             existingBlocks[arg].coreThickness,
                                             existingBlocks[arg].rotation),
                         existingBlocks[arg].position)

\* C7: a category outside the catalog never makes getBlockBounds,
\* getBlockFaces, getBlockFaceOffsets or snapBlockPosition throw; they return
\* the fallback footprint (24 either side in X, 7 either side in Z) and its
\* four faces.
C7_UnknownCategoryFallback ==
    /\ (op \in {"getBlockBounds", "getBlockFaces"} /\ existingBlocks[arg].type \notin ICFBlockType) =>
          /\ ~raised
          /\ LET pos == existingBlocks[arg].position IN
             IF op = "getBlockBounds"
             THEN ret = Bounds(pos.x - 24 * Inch, pos.x + 24 * Inch,
                               pos.z - 7 * Inch, pos.z + 7 * Inch, existingBlocks[arg].rotation)
             ELSE ret = << Face(pos.x - 24 * Inch, pos.z, pos.x - 24 * Inch, "minX"),
                           Face(pos.x + 24 * Inch, pos.z, pos.x + 24 * Inch, "maxX"),
                           Face(pos.x, pos.z - 7 * Inch, pos.z - 7 * Inch, "minZ"),
                           Face(pos.x, pos.z + 7 * Inch, pos.z + 7 * Inch, "maxZ") >>
    /\ (op = "getBlockFaceOffsets" /\ blockType \notin ICFBlockType) =>
          /\ ~raised
          /\ ret = << Offset(-24 * Inch, 0, -24 * Inch, "minX"),
                      Offset(24 * Inch, 0, 24 * Inch, "maxX"),
                      Offset(0, -7 * Inch, -7 * Inch, "minZ"),
                      Offset(0, 7 * Inch, 7 * Inch, "maxZ") >>
    /\ op = "snapBlockPosition" => ~raised

\* The solutions of S nearest to the cursor.
Nearest(S) == { s \in S : \A t \in S : s.d2 <= t.d2 }

\* The call returned the position of solution s.
ReturnedAt(s) == ret.position.x = s.x /\ ret.position.z = s.z

\* C5: the threshold is strict.  A solution at exactly 150 from the cursor is
\* never the position returned as a match, and when it is the nearest one no
\* match is reported; a nearest solution strictly below 150 is accepted.
C5_ThresholdStrict ==
    Returned("snapBlockPosition") =>
        LET S == Solutions
            N == Nearest(S)
        IN  /\ \A s \in S : s.d2 = Threshold2 => ~(ret.snappedToBlock /\ ReturnedAt(s))
            /\ (\E s \in N : s.d2 = Threshold2) =>
                  /\ ~ret.snappedToBlock
                  /\ ret.position.x = RoundTo(rawPosition.x, gridSize)
                  /\ ret.position.z = RoundTo(rawPosition.z, gridSize)
            /\ (\E s \in N : s.d2 < Threshold2) =>
                  /\ ret.snappedToBlock
                  /\ \E s \in N : ReturnedAt(s)

\* C5, both sides of the boundary seen from the scenario block: the nearest
\* solution (48, 0) is at exactly 150 from the cursor (198, 0, 0) and is left.
C5_Witness ==
    /\ Scenario(Vector3(198 * Inch, 0, 0))
    /\ \E s \in Nearest(Solutions) : s.d2 = Threshold2 /\ s.x = 48 * Inch /\ s.z = 0
    /\ ~ret.snappedToBlock

\* C6: grid fallback.  When no solution lies strictly within the threshold,
\* and so whenever existingBlocks is empty, snapBlockPosition returns exactly
\* snapToGrid(rawPosition, gridSize), with no match, no block id and no edge.
C6_GridFallback ==
    (Returned("snapBlockPosition") /\ (Near(Solutions) = {} \/ existingBlocks = << >>)) =>
        /\ ret.position = snapToGrid(rawPosition, gridSize)
        /\ ret.snappedToBlock = FALSE
        /\ ret.snappedBlockId = Undefined
        /\ ret.snapEdge = Undefined

\* C6, the first placement: no block yet, and a height that the vertical
\* module of 16 rounds differently from the grid size.
C6_Witness ==
    /\ Returned("snapBlockPosition")
    /\ existingBlocks = << >>
    /\ RoundTo(rawPosition.y, gridSize) # ret.position.y
    /\ ret.position.y # rawPosition.y

\* C8: minimum-distance selection.  When a match is reported, the (x, z)
\* returned is the solution of an opposing pair and no opposing pair of any
\* existing block has a solution strictly closer to the cursor.
C8_MinimumDistance ==
    (Returned("snapBlockPosition") /\ ret.snappedToBlock) =>
        LET S == Solutions IN
        \E s \in S :
            /\ ReturnedAt(s)
            /\ \A t \in S : ~(t.d2 < s.d2)

\* C8, a match where a solution met later in the iteration replaced a
\* farther one that was within the threshold too.
C8_Witness ==
    /\ Returned("snapBlockPosition") /\ ret.snappedToBlock
    /\ \E s, t \in Near(Solutions) : Before(s, t) /\ t.d2 < s.d2 /\ ReturnedAt(t)

\* The order of the faces and of the offsets: -X, +X, -Z, +Z.
FaceOrder == << "minX", "maxX", "minZ", "maxZ" >>

\* C9: ties are broken by iteration order.  The faces of a block and the
\* candidate offsets come in the order -X, +X, -Z, +Z, and among the
\* solutions at the minimal distance the match reported is the one met first
\* over the blocks in list order, then the faces, then the offsets.
C9_FirstFoundWins ==
    (Returned("snapBlockPosition") /\ ret.snappedToBlock) =>
        LET S == Solutions
            N == Nearest(S)
        IN
        /\ \A s \in S :
              s.exFace.orientation = FaceOrder[s.j] /\ s.newFace.orientation = FaceOrder[s.k]
        /\ \E s \in N :
              /\ \A t \in N : t = s \/ Before(s, t)
              /\ ret.position = Vector3(s.x, rawPosition.y, s.z)
              /\ ret.snappedBlockId = s.id
              /\ ret.snapEdge = EdgeLabel[s.newFace.orientation]

\* C9, an exact tie between two blocks: the same call on the list in the
\* other order returns the same position and reports the other block.
C9_Witness ==
    /\ Returned("snapBlockPosition") /\ ret.snappedToBlock
    /\ Len(existingBlocks) = 2
    /\ LET other == snapBlockPosition(rawPosition, blockType, coreThickness, rotation,
                                      << existingBlocks[2], existingBlocks[1] >>, gridSize)
       IN  /\ other.position = ret.position
           /\ other.snappedBlockId # ret.snappedBlockId
           /\ ret.snappedBlockId = existingBlocks[1].id

\* C10: when a match is reported, the winning pair is a face of the reported
\* block and a candidate face with opposing orientations on one axis, and
\* the edge label is the candidate face's orientation mapped -X to 'left',
\* +X to 'right', -Z to 'back', +Z to 'front'.
C10_OpposingPairLabel ==
    (Returned("snapBlockPosition") /\ ret.snappedToBlock) =>
        \E s \in Solutions :
            /\ ReturnedAt(s)
            /\ s.id = ret.snappedBlockId
            /\ Opposes(s.exFace.orientation, s.newFace.orientation)
            /\ ret.snapEdge = EdgeLabel[s.newFace.orientation]

\* C10, a match on the Z axis.
C10_Witness ==
    /\ Returned("snapBlockPosition") /\ ret.snappedToBlock
    /\ ret.snapEdge \in {"front", "back"}

\* C11: when a match is reported, the position returned is strictly less
\* than 150 from the cursor in the ground plane and the id reported is the id
\* of a block of existingBlocks one of whose faces produced that position;
\* when no match is reported, the id and the edge label are absent.
C11_MatchWithinThreshold ==
    Returned("snapBlockPosition") =>
        IF ret.snappedToBlock
        THEN /\ dist2(rawPosition, ret.position.x, ret.position.z) < Threshold2
             /\ \E i \in 1..Len(existingBlocks) :
                   /\ existingBlocks[i].id = ret.snappedBlockId
                   /\ \E s \in Solutions : s.i = i /\ ReturnedAt(s)
        ELSE /\ ret.snappedBlockId = Undefined
             /\ ret.snapEdge = Undefined

\* C11, a match to the second block of the list, the first one being within
\* the threshold too.
C11_Witness ==
    /\ Returned("snapBlockPosition") /\ ret.snappedToBlock
    /\ Len(existingBlocks) = 2
    /\ ret.snappedBlockId = existingBlocks[2].id
    /\ \E s \in Near(Solutions) : s.i = 1

\* The multiples of 16 inches nearest to y (two of them when y is half way).
NearestModule(y) ==
    { m \in { (y \div (16 * Inch)) * (16 * Inch), (y \div (16 * Inch) + 1) * (16 * Inch) } :
        2 * (IF m < y THEN y - m ELSE m - y) <= 16 * Inch }

\* C12: when a match is reported, the Y of the position returned is the
\* cursor's Y itself; Y is rounded to a multiple of 16 only when no match is
\* reported.
C12_HeightKept ==
    Returned("snapBlockPosition") =>
        IF ret.snappedToBlock
        THEN ret.position.y = rawPosition.y
        ELSE ret.position.y \in NearestModule(rawPosition.y)

\* C12, a match where the cursor's height is no multiple of 16 and differs
\* from the height of the block matched.
C12_Witness ==
    /\ Returned("snapBlockPosition") /\ ret.snappedToBlock
    /\ rawPosition.y % (16 * Inch) # 0
    /\ \E i \in 1..Len(existingBlocks) :
          /\ existingBlocks[i].id = ret.snappedBlockId
          /\ existingBlocks[i].position.y # rawPosition.y
          /\ existingBlocks[i].position.y # 0

\* C13: for a block of a catalogued category at a quarter-turn rotation,
\* getBlockBounds returns minX <= maxX and minZ <= maxZ.
C13_BoundsWellFormed ==
    (Returned("getBlockBounds") /\ existingBlocks[arg].rotation \in Rotations) =>
        /\ ret.minX <= ret.maxX
        /\ ret.minZ <= ret.maxZ

\* C13, the case whose lower bound is a difference of two catalogue lengths:
\* a corner90 block turned by 180 at a negative position.
C13_Witness ==
    /\ Returned("getBlockBounds")
    /\ existingBlocks[arg].type = "corner90"
    /\ existingBlocks[arg].rotation = 180
    /\ existingBlocks[arg].position.x < 0
    /\ ret.minX < ret.maxX

\* The orientations of a sequence of faces or of face offsets.
Orientations(faces) == { faces[k].orientation : k \in 1..Len(faces) }

FourFaces(faces) ==
    /\ Len(faces) = 4
    /\ Orientations(faces) = {"minX", "maxX", "minZ", "maxZ"}

\* C14: for every catalogued category and quarter-turn rotation, both
\* getBlockFaces and getBlockFaceOffsets return exactly four faces, one for
\* each of the orientations -X, +X, -Z, +Z.
C14_FourFaces ==
    /\ (Returned("getBlockFaces") /\ existingBlocks[arg].rotation \in Rotations) => FourFaces(ret)
    /\ (Returned("getBlockFaceOffsets") /\ rotation \in Rotations) => FourFaces(ret)

\* C14, the last case of the corner90 switch of getBlockFaceOffsets.
C14_Witness ==
    /\ Returned("getBlockFaceOffsets")
    /\ blockType = "corner90" /\ rotation = 270
    /\ FourFaces(ret)

\* The block of a getBlockBounds or getBlockFaces call, and the same block
\* at rotation 0.
TheBlock == existingBlocks[arg]

Unturned(block) == [block EXCEPT !.rotation = 0]

\* The rectangle of a bounds record, without its rotation field.
Rect(b) == [minX |-> b.minX, maxX |-> b.maxX, minZ |-> b.minZ, maxZ |-> b.maxZ]

\* The rectangle b with its X and Z half-extents exchanged around its center
\* (cx, cz), which must be the position (x, z); written without halving.
SwappedAround(r, b, x, z) ==
    /\ b.minX + b.maxX = 2 * x
    /\ b.minZ + b.maxZ = 2 * z
    /\ r.minX + r.maxX = 2 * x
    /\ r.minZ + r.maxZ = 2 * z
    /\ r.maxX - r.minX = b.maxZ - b.minZ
    /\ r.maxZ - r.minZ = b.maxX - b.minX

\* C15: for a rectangular block (standard, taperTop, brickLedge,
\* heightAdjuster), getBlockBounds at rotation 90 is the rectangle at rotation
\* 0 with the X and Z half-extents exchanged around the same center, and
\* rotations 180 and 270 give the rectangles of 0 and 90.
C15_RectangularSymmetry ==
    (Returned("getBlockBounds") /\ IsRectangular(TheBlock.type)
                                /\ TheBlock.rotation \in Rotations) =>
        LET b0 == getBlockBounds(Unturned(TheBlock)) IN
        IF TheBlock.rotation \in {0, 180}
        THEN Rect(ret) = Rect(b0)
        ELSE SwappedAround(ret, b0, TheBlock.position.x, TheBlock.position.z)

\* C15, a block whose two extents differ, at 270 and off the origin.
C15_Witness ==
    /\ Returned("getBlockBounds")
    /\ TheBlock.type = "brickLedge" /\ TheBlock.rotation = 270
    /\ TheBlock.position.x # 0
    /\ ret.maxX - ret.minX < ret.maxZ - ret.minZ

\* A quarter turn of an offset from the center, and r / 90 of them.
QuarterTurn(v) == << v[2], -v[1] >>

Turned(v, r) ==
    CASE r = 90  -> QuarterTurn(v)
      [] r = 180 -> QuarterTurn(QuarterTurn(v))
      [] r = 270 -> QuarterTurn(QuarterTurn(QuarterTurn(v)))
      [] OTHER   -> v

\* The corners of a rectangle as offsets from (x, z).
Corners(b, x, z) == { << cx - x, cz - z >> : cx \in {b.minX, b.maxX}, cz \in {b.minZ, b.maxZ} }

\* C16: the bounds of a corner90 block at rotation 0 are X in
\* [x - W/2, x + S - W/2], Z in [z - L/2, z + L/2], and at 90, 180 and 270
\* they are that rectangle turned about the position by the angle, a quarter
\* turn sending the offset (dx, dz) to (dz, -dx).
C16_Corner90Bounds ==
    (Returned("getBlockBounds") /\ TheBlock.type = "corner90"
                                /\ TheBlock.rotation \in Rotations) =>
        LET x == TheBlock.position.x
            z == TheBlock.position.z
            L == ICF_BLOCK_CATALOG["corner90"].longLeg
            S == ICF_BLOCK_CATALOG["corner90"].shortLeg
            W == getWidth("corner90", TheBlock.coreThickness)
            atZero == [minX |-> x - Half(W), maxX |-> x + S - Half(W),
                       minZ |-> z - Half(L), maxZ |-> z + Half(L)]
        IN  /\ ret.minX <= ret.maxX /\ ret.minZ <= ret.maxZ
            /\ Corners(ret, x, z) = { Turned(v, TheBlock.rotation) : v \in Corners(atZero, x, z) }

\* C16, the third quarter turn.
C16_Witness ==
    /\ Returned("getBlockBounds")
    /\ TheBlock.type = "corner90" /\ TheBlock.rotation = 270
    /\ TheBlock.position.z # 0
    /\ ret.maxZ - TheBlock.position.z > TheBlock.position.z - ret.minZ

\* The orientation a quarter turn gives to a face: -X to +Z, +Z to +X,
\* +X to -Z, -Z to -X.
TurnedOrientation(o, r) ==
    LET q == [p \in {"minX", "maxZ", "maxX", "minZ"} |->
                 CASE p = "minX" -> "maxZ" [] p = "maxZ" -> "maxX"
                   [] p = "maxX" -> "minZ" [] p = "minZ" -> "minX"]
    IN  CASE r = 90  -> q[o]
          [] r = 180 -> q[q[o]]
          [] r = 270 -> q[q[q[o]]]
          [] OTHER   -> o

\* A face offset (midpoint offset, plane offset, orientation) turned by r.
TurnedOffset(f, r) ==
    LET v == Turned(<< f.offsetX, f.offsetZ >>, r)
        o == TurnedOrientation(f.orientation, r)
    IN  Offset(v[1], v[2], IF o \in {"minX", "maxX"} THEN v[1] ELSE v[2], o)

\* The faces of a block as offsets from its position.
AsOffsets(faces, pos) ==
    { Offset(faces[k].centerX - pos.x, faces[k].centerZ - pos.z,
             faces[k].plane - (IF faces[k].orientation \in {"minX", "maxX"} THEN pos.x ELSE pos.z),
             faces[k].orientation) : k \in 1..Len(faces) }

Range(s) == { s[k] : k \in 1..Len(s) }

\* C17: for r in {90, 180, 270} the four faces (plane, midpoint, orientation)
\* of a corner90 block at rotation r, from getBlockFaces and from
\* getBlockFaceOffsets, are the four faces at rotation 0 turned about the
\* position by r.
C17_Corner90FacesTurn ==
    /\ (Returned("getBlockFaces") /\ TheBlock.type = "corner90"
                                  /\ TheBlock.rotation \in {90, 180, 270}) =>
          AsOffsets(ret, TheBlock.position) =
              { TurnedOffset(f, TheBlock.rotation) :
                  f \in AsOffsets(getBlockFaces(Unturned(TheBlock)), TheBlock.position) }
    /\ (Returned("getBlockFaceOffsets") /\ blockType = "corner90"
                                        /\ rotation \in {90, 180, 270}) =>
          Range(ret) = { TurnedOffset(f, rotation) :
                           f \in Range(getBlockFaceOffsets(blockType, coreThickness, 0)) }

\* C17, the inner wall of the short leg: at rotation 0 it faces +X with its
\* midpoint off both axes, at 90 it faces -Z.
C17_Witness ==
    /\ Returned("getBlockFaceOffsets")
    /\ blockType = "corner90" /\ rotation = 90
    /\ \E k \in 1..Len(ret) :
          /\ ret[k].orientation = "minZ"
          /\ ret[k].offsetX # 0 /\ ret[k].offsetZ # 0
          /\ ret[k] = TurnedOffset(getBlockFaceOffsets(blockType, coreThickness, 0)[2], 90)

\* C18: the bounds of a corner45 block are a square of side 32 with one
\* corner at the position, in the quadrant +X+Z at rotation 0, +X-Z at 90,
\* -X-Z at 180 and -X+Z at 270.
C18_Corner45Bounds ==
    (Returned("getBlockBounds") /\ TheBlock.type = "corner45"
                                /\ TheBlock.rotation \in Rotations) =>
        LET x == TheBlock.position.x
            z == TheBlock.position.z
            r == TheBlock.rotation
            side == 32 * Inch
        IN  /\ ret.maxX - ret.minX = side
            /\ ret.maxZ - ret.minZ = side
            /\ ret.minX = (IF r \in {0, 90} THEN x ELSE x - side)
            /\ ret.minZ = (IF r \in {0, 270} THEN z ELSE z - side)

\* C18, the quadrant -X+Z.
C18_Witness ==
    /\ Returned("getBlockBounds")
    /\ TheBlock.type = "corner45" /\ TheBlock.rotation = 270
    /\ TheBlock.position.x # 0
    /\ ret.maxX = TheBlock.position.x /\ ret.minZ = TheBlock.position.z

\* |a - b|.
Apart(a, b) == IF a < b THEN b - a ELSE a - b

\* v is a multiple of d no farther than d / 2 from n.
RoundedTo(v, n, d) == v % d = 0 /\ 2 * Apart(v, n) <= d

\* C19: snapToGrid(p, g) for g > 0 returns X and Z as multiples of g within
\* g / 2 of p.x and p.z, and Y as a multiple of 16 within 8 of p.y whatever
\* g is; the method Scene3D.snapToGrid does the same with g = 8.
C19_GridRounding ==
    /\ Returned("snapToGrid") =>
          /\ RoundedTo(ret.x, rawPosition.x, gridSize)
          /\ RoundedTo(ret.z, rawPosition.z, gridSize)
          /\ RoundedTo(ret.y, rawPosition.y, 16 * Inch)
    /\ Returned("Scene3D.snapToGrid") =>
          /\ RoundedTo(ret.x, rawPosition.x, 8 * Inch)
          /\ RoundedTo(ret.z, rawPosition.z, 8 * Inch)
          /\ RoundedTo(ret.y, rawPosition.y, 16 * Inch)

\* C19, a grid size that does not divide 16 and a height that no multiple of
\* the grid size is nearest to: Y moves to a multiple of 16 that is no
\* multiple of the grid size, X moves by exactly half a grid step.
C19_Witness ==
    /\ Returned("snapToGrid")
    /\ gridSize = 6 * Inch
    /\ ret.y # 0 /\ ret.y % gridSize # 0
    /\ 2 * Apart(ret.x, rawPosition.x) = gridSize

\* C20: snapToGrid(snapToGrid(p, g), g) = snapToGrid(p, g) in all three
\* coordinates.
C20_GridIdempotent ==
    Returned("snapToGrid") => snapToGrid(ret, gridSize) = ret

\* C20, a position that the first snap moves in all three coordinates, to a
\* Y that is no multiple of the grid size.
C20_Witness ==
    /\ Returned("snapToGrid")
    /\ ret.x # rawPosition.x /\ ret.y # rawPosition.y /\ ret.z # rawPosition.z
    /\ ret.y % gridSize # 0
    /\ snapToGrid(ret, gridSize) = ret

\* C21: snapBlockPosition and snapToGrid do not change their inputs: after
\* the call the cursor position and the list of blocks (every field of every
\* block, and the order) are what they were, and the position returned is an
\* object of its own, not the cursor position object.
C21_InputsUntouched ==
    [][ op' \in {"snapBlockPosition", "snapToGrid"} =>
            /\ rawPosition' = rawPosition
            /\ existingBlocks' = existingBlocks
            /\ (~raised' => retObject' \in ObjectTags \ {"rawPosition"}) ]_vars

\* C21, a fallback call with two blocks in the list that returns a position
\* other than the cursor's.
C21_Witness ==
    /\ Returned("snapBlockPosition") /\ ~ret.snappedToBlock
    /\ Len(existingBlocks) = 2
    /\ ret.position # rawPosition
    /\ retObject = "new"

\* The block b at rotation d.
AtRotation(b, d) == [b EXCEPT !.rotation = d]

\* C22: for a rotation that is no quarter turn, getBlockBounds, getBlockFaces
\* and getBlockFaceOffsets behave as for one default quarter turn, so that
\* four faces are returned and they agree with the bounds.
C22_DefaultRotation ==
    /\ (op \in {"getBlockBounds", "getBlockFaces"} /\ ~raised
            /\ TheBlock.rotation \notin Rotations) =>
          \E d \in Rotations :
              /\ Rect(getBlockBounds(TheBlock)) = Rect(getBlockBounds(AtRotation(TheBlock, d)))
              /\ getBlockFaces(TheBlock) = getBlockFaces(AtRotation(TheBlock, d))
              /\ FourFaces(getBlockFaces(TheBlock))
    /\ (Returned("getBlockFaceOffsets") /\ rotation \notin Rotations) =>
          \E d \in Rotations :
              /\ ret = getBlockFaceOffsets(blockType, coreThickness, d)
              /\ FourFaces(ret)

\* Two bounding rectangles whose interiors meet.
InteriorsMeet(p, q) ==
    /\ p.minX < q.maxX /\ q.minX < p.maxX
    /\ p.minZ < q.maxZ /\ q.minZ < p.maxZ

\* The bounding rectangle p has its side `edge` on the opposite side of q and
\* the two sides have a point in common.
TouchesAlong(p, q, edge) ==
    CASE edge = "left"  -> p.minX = q.maxX /\ p.minZ <= q.maxZ /\ q.minZ <= p.maxZ
      [] edge = "right" -> p.maxX = q.minX /\ p.minZ <= q.maxZ /\ q.minZ <= p.maxZ
      [] edge = "back"  -> p.minZ = q.maxZ /\ p.minX <= q.maxX /\ q.minX <= p.maxX
      [] edge = "front" -> p.maxZ = q.minZ /\ p.minX <= q.maxX /\ q.minX <= p.maxX
      [] OTHER -> FALSE

EdgeToEdgeTypes == {"standard", "taperTop", "brickLedge", "heightAdjuster", "corner90"}

\* C24: when a rectangular or corner90 candidate at a quarter-turn rotation
\* is snapped to a rectangular or corner90 block U, the bounding rectangle of
\* the candidate at the position returned touches the bounding rectangle of U
\* along the plane of the matched face and their interiors do not meet.
C24_EdgeToEdge ==
    (Returned("snapBlockPosition") /\ ret.snappedToBlock
        /\ blockType \in EdgeToEdgeTypes /\ rotation \in Rotations) =>
        \A i \in 1..Len(existingBlocks) :
            (existingBlocks[i].id = ret.snappedBlockId
                /\ existingBlocks[i].type \in EdgeToEdgeTypes) =>
                LET p == getBlockBounds(Placed(ret.position.x, ret.position.y, ret.position.z))
                    q == getBlockBounds(existingBlocks[i])
                IN  /\ TouchesAlong(p, q, ret.snapEdge)
                    /\ ~InteriorsMeet(p, q)

\* C24, a corner90 candidate snapped to the corner90 block of the pool.
C24_Witness ==
    /\ Returned("snapBlockPosition") /\ ret.snappedToBlock
    /\ blockType = "corner90"
    /\ \E i \in 1..Len(existingBlocks) :
          /\ existingBlocks[i].id = ret.snappedBlockId
          /\ existingBlocks[i].type = "corner90"

---------------------------------------------------------------------------
(* Properties of the ProjectState *)

\* The calls that change the list of blocks and save it to the history
\* when they succeed.
Mutators == {"addICFBlock", "removeICFBlock", "updateICFBlock", "deleteElement", "deleteSelected"}

\* The call o that returned r changed the list: addICFBlock returns the
\* block, the others return true.
Succeeded(o, r) == o \in Mutators /\ (o = "addICFBlock" \/ r = TRUE)

\* The ids generateId has given out, before the run and in it.
GeneratedIds == { generateId(n) : n \in (1 - maxHistory)..MaxCalls }

\* C23: currentRotation is always one of 0, 90, 180, 270, so every block
\* made by addICFBlock, and with it every such block handed to
\* snapBlockPosition, has one of these rotations.
C23_QuarterTurns ==
    /\ rotation \in Rotations
    /\ op = "addICFBlock" => ret.rotation = pre.this.currentRotation /\ ret.rotation \in Rotations
    /\ \A i \in 1..Len(existingBlocks) :
          existingBlocks[i].id \in GeneratedIds => existingBlocks[i].rotation \in Rotations

\* C23, the turn from 270 back to 0 with a block selected.
C23_Witness ==
    /\ op = "rotateSelection"
    /\ pre.this.currentRotation = 270 /\ rotation = 0
    /\ \E i \in 1..Len(existingBlocks) :
          existingBlocks[i].id = selectedElementId /\ existingBlocks[i].rotation = 0

\* C25: when selectedElementId is the id of a block of the project,
\* rotateSelection leaves that block's rotation at its rotation before the
\* call plus 90, modulo 360.
C25_RotateSelected ==
    op = "rotateSelection" =>
        \A i \in 1..Len(pre.this.icfBlocks) :
            pre.this.icfBlocks[i].id = pre.this.selectedElementId =>
                /\ Len(existingBlocks) = Len(pre.this.icfBlocks)
                /\ existingBlocks[i].rotation = (pre.this.icfBlocks[i].rotation + 90) % 360

\* C26: after a successful addICFBlock, removeICFBlock, updateICFBlock or
\* deleteElement, undo returns true and the list of blocks is what it was
\* before that call, and a redo that follows at once returns true and the
\* list is what it was after that call.
C26_UndoRedoRoundTrip ==
    [][ /\ (Succeeded(op, ret) /\ op' = "undo") =>
              (ret' = TRUE /\ existingBlocks' = pre.this.icfBlocks)
        /\ (op = "undo" /\ Succeeded(pre.op, pre.ret) /\ op' = "redo") =>
              (ret' = TRUE /\ existingBlocks' = pre.this.icfBlocks) ]_vars

\* C26, a redo after an undo that brought back another list, the history
\* being full.
C26_Witness ==
    /\ op = "redo" /\ ret = TRUE
    /\ pre.op = "undo" /\ pre.ret = TRUE
    /\ existingBlocks # pre.this.icfBlocks
    /\ Len(history) = maxHistory

\* The fields of the object, as the variables hold them after a call.
Fields(t) ==
    << t.icfBlocks, t.history, t.historyIndex, t.currentRotation, t.selectedElementId, t.meshMap >>

\* C27: 1 <= history.length <= 50 and 0 <= historyIndex <= history.length - 1
\* in every state; undo at index 0 and redo at the last index return false
\* and change nothing.
C27_HistoryBounds ==
    /\ 1 <= Len(history) /\ Len(history) <= maxHistory
    /\ 0 <= historyIndex /\ historyIndex <= Len(history) - 1
    /\ (op = "undo" /\ pre.this.historyIndex = 0) =>
          (ret = FALSE /\ Fields(this) = Fields(pre.this) /\ notified = 0)
    /\ (op = "redo" /\ pre.this.historyIndex = Len(pre.this.history) - 1) =>
          (ret = FALSE /\ Fields(this) = Fields(pre.this) /\ notified = 0)

\* C27, a snapshot pushed on a full history: the oldest one is dropped.
C27_Witness ==
    /\ op = "addICFBlock"
    /\ Len(pre.this.history) = maxHistory /\ Len(history) = maxHistory
    /\ history[1] = pre.this.history[2]
    /\ historyIndex = maxHistory - 1

\* The call o that returned r (or threw) saved a snapshot.
Saved(o, r, threw) ==
    \/ Succeeded(o, r)
    \/ o = "importJSON" /\ ~threw
    \/ o = "loadFromLocalStorage" /\ r = TRUE

\* C28: a call that saves to the history after undo discards the redo
\* branch: the history is the snapshots up to the current one and the new
\* one, and the next redo returns false and changes nothing.
C28_RedoBranchDiscarded ==
    [][ /\ (op = "undo" /\ ret = TRUE /\ Saved(op', ret', raised')) =>
              /\ history' = Append(SubSeq(history, 1, historyIndex + 1), existingBlocks')
              /\ historyIndex' = Len(history') - 1
        /\ (pre.op = "undo" /\ pre.ret = TRUE /\ Saved(op, ret, raised) /\ op' = "redo") =>
              /\ ret' = FALSE
              /\ existingBlocks' = existingBlocks /\ history' = history
              /\ historyIndex' = historyIndex ]_vars

\* C28, a block placed after undo: the snapshot undone is gone from the
\* history.
C28_Witness ==
    /\ op = "addICFBlock"
    /\ pre.op = "undo" /\ pre.ret = TRUE
    /\ pre.this.historyIndex < Len(pre.this.history) - 1
    /\ \E k \in 1..Len(pre.this.history) :
          \A j \in 1..Len(history) : history[j] # pre.this.history[k]

\* C29: after rebuildScene the ids registered in the mesh map are the ids of
\* the blocks of the project.
C29_MeshMapConsistent ==
    (notified > 0 \/ op \in {"selectElement", "newProject"}) =>
        meshMap = Ids(existingBlocks)

InvalidKinds == {"notJSON", "null", "noVersion", "noElements"}

\* C30: importJSON on a text that is no JSON, or on a value without version
\* or without elements, throws and leaves the project, the history and
\* historyIndex as they were and notifies no listener; loadFromLocalStorage
\* on such a text returns false, with the same nothing done.
C30_InvalidImport ==
    (op \in {"importJSON", "loadFromLocalStorage"} /\ arg.kind \in InvalidKinds) =>
        /\ IF op = "importJSON" THEN raised ELSE ~raised /\ ret = FALSE
        /\ existingBlocks = pre.this.icfBlocks
        /\ history = pre.this.history
        /\ historyIndex = pre.this.historyIndex
        /\ notified = 0

\* C30, a value without version that carries a block, refused while the
\* project holds another list.
C30_Witness ==
    /\ op = "importJSON" /\ raised
    /\ arg.kind = "noVersion"
    /\ arg.icfBlocks # existingBlocks
    /\ Len(history) > 1

=============================================================================
